---- MODULE Spec2Model ----
(***************************************************************************)
(* A model of ChromeRecovery (src/Resources/recover.py): profile           *)
(* validation, the three extractors (bookmarks, history, tabs), the HTML   *)
(* dashboard and the Netscape bookmarks export, and main's control flow.    *)
(*                                                                         *)
(* Encodings.  A Python string is a sequence of tokens (a token is a chunk *)
(* of ordinary characters, or one of the five characters html.escape       *)
(* rewrites).  A value that may be None is None or Some(v).  A dict is a   *)
(* function whose DOMAIN is its key set; an insertion-ordered dict that is *)
(* iterated (the bookmark roots) is a sequence of [key, value] records     *)
(* with distinct keys.  An HTML document is the sequence `parts`, one      *)
(* record per appended fragment.                                           *)
(***************************************************************************)
EXTENDS Integers, Sequences, FiniteSets, TLC

(***************************************************************************)
(* Bounds of the checked instances.                                        *)
(***************************************************************************)
MaxTotalEntries == 2   \* navigation records over the four snapshot files
MaxChildren == 2       \* children of a folder in the enumerated trees
MaxChain == 6          \* folders nested around a link in the deep trees
MaxRoots == 2          \* entries of the bookmark root mapping
MaxRows == 2           \* rows handed to the dashboard per list

(***************************************************************************)
(* Program constants.                                                      *)
(***************************************************************************)
HistoryLimit == 5000   \* extract_history(profile_path, limit=5000)
MaxIndent == 5         \* indent = min(depth, 5)

Procs == {1, 2}

None == [tag |-> "None"]
Some(v) == [tag |-> "Some", val |-> v]
IsNone(x) == x.tag = "None"

\* Python truthiness of an optional list / dict: not None and not empty.
Truthy(x) == x.tag = "Some" /\ Len(x.val) > 0

Min(a, b) == IF a < b THEN a ELSE b

\* dict.get(key, default)
Get(d, key, default) == IF key \in DOMAIN d THEN d[key] ELSE default

SeqToSet(s) == {s[k] : k \in DOMAIN s}

(***************************************************************************)
(* esc: html.escape(str(text)), quote=True.                                *)
(***************************************************************************)
EscToken(t) ==
  CASE t = "&" -> "&amp;"
    [] t = "<" -> "&lt;"
    [] t = ">" -> "&gt;"
    [] t = "\"" -> "&quot;"
    [] t = "'" -> "&#x27;"
    [] OTHER -> t

esc(text) == [k \in DOMAIN text |-> EscToken(text[k])]

(***************************************************************************)
(* Validation.                                                             *)
(***************************************************************************)
Missing == [tag |-> "Missing"]
Exists(file) == file.tag # "Missing"

EXPECTED_FILES == <<"Bookmarks", "History">>

\* The profile directory as the files the program looks at.
ProfileFile(profile, name) ==
  CASE name = "Bookmarks" -> profile.bookmarks
    [] name = "History" -> profile.history
    [] OTHER -> profile.sessions[name]

RECURSIVE MissingFrom(_, _, _)
MissingFrom(profile, names, k) ==
  IF k > Len(names) THEN <<>>
  ELSE (IF Exists(ProfileFile(profile, names[k])) THEN <<>> ELSE <<names[k]>>)
       \o MissingFrom(profile, names, k + 1)

validate_profile_onlyBookmarks(profile) ==
  LET missing == MissingFrom(profile, <<"Bookmarks">>, 1)
  IN  [ok |-> Len(missing) = 0, missing |-> missing]

validate_profile(profile) ==
  LET missing == MissingFrom(profile, EXPECTED_FILES, 1)
  IN  [ok |-> Len(missing) = 0, missing |-> missing]

(***************************************************************************)
(* Bookmarks.  extract_bookmarks returns [raised, value]: json.load raises *)
(* on a file that is not valid JSON.                                       *)
(***************************************************************************)
extract_bookmarks(profile) ==
  LET f == profile.bookmarks
  IN  IF ~Exists(f) THEN [raised |-> FALSE, value |-> None]
      ELSE IF f.tag = "InvalidJson" THEN [raised |-> TRUE, value |-> None]
      ELSE [raised |-> FALSE, value |-> Some(Get(f.data, "roots", <<>>))]

\* A walk that does not skip the subtree of a node of unrecognized type.
RECURSIVE walk_bookmarks_descendsUnknown(_, _)
RECURSIVE WalkChildrenOfAny(_, _, _)
walk_bookmarks_descendsUnknown(node, depth) ==
  IF Get(node, "type", "") = "folder"
  THEN <<<<depth, "folder", Get(node, "name", <<"Untitled">>), None>>>>
       \o WalkChildrenOfAny(Get(node, "children", <<>>), depth + 1, 1)
  ELSE IF Get(node, "type", "") = "url"
  THEN <<<<depth, "url", Get(node, "name", <<"Untitled">>),
           Some(Get(node, "url", <<>>))>>>>
  ELSE WalkChildrenOfAny(Get(node, "children", <<>>), depth + 1, 1)

WalkChildrenOfAny(children, depth, k) ==
  IF k > Len(children) THEN <<>>
  ELSE walk_bookmarks_descendsUnknown(children[k], depth)
       \o WalkChildrenOfAny(children, depth, k + 1)

\* walk_bookmarks yields (depth, type, name, url); url is None for a folder.
RECURSIVE walk_bookmarks(_, _)
RECURSIVE WalkChildren(_, _, _)
walk_bookmarks(node, depth) ==
  IF Get(node, "type", "") = "folder"
  THEN <<<<depth, "folder", Get(node, "name", <<"Untitled">>), None>>>>
       \o WalkChildren(Get(node, "children", <<>>), depth + 1, 1)
  ELSE IF Get(node, "type", "") = "url"
  THEN <<<<depth, "url", Get(node, "name", <<"Untitled">>),
           Some(Get(node, "url", <<>>))>>>>
  ELSE <<>>

WalkChildren(children, depth, k) ==
  IF k > Len(children) THEN <<>>
  ELSE walk_bookmarks(children[k], depth) \o WalkChildren(children, depth, k + 1)

EXCLUDED_ROOTS == {"synced", "sync_transaction_version"}

(***************************************************************************)
(* History.  The store is read through a copy at a fixed path; the steps   *)
(* of extract_history are actions below.  These are its pure parts.        *)
(* A row is [url, title, last_visit_time, in_range]: in_range says whether *)
(* CHROME_EPOCH + timedelta(microseconds=last_visit_time) is a datetime    *)
(* (the conversion raises OverflowError otherwise).                         *)
(***************************************************************************)
RECURSIVE OrderByLastVisitDesc(_)
OrderByLastVisitDesc(rows) ==
  IF Len(rows) = 0 THEN <<>>
  ELSE LET k == CHOOSE i \in DOMAIN rows :
                  \A j \in DOMAIN rows :
                     \/ rows[j].last_visit_time < rows[i].last_visit_time
                     \/ (rows[j].last_visit_time = rows[i].last_visit_time /\ i <= j)
           rest == [m \in 1..(Len(rows) - 1) |-> IF m < k THEN rows[m] ELSE rows[m + 1]]
       IN  <<rows[k]>> \o OrderByLastVisitDesc(rest)

\* SELECT url, title, last_visit_time FROM urls ORDER BY last_visit_time DESC LIMIT ?
SelectUrls(rows, limit) ==
  LET sorted == OrderByLastVisitDesc(rows)
  IN  SubSeq(sorted, 1, Min(limit, Len(sorted)))

\* The data a connection reads can be queried only if it is a history store.
Queryable(data) == data.tag = "Sqlite"

TimeStr(row) ==
  IF row.in_range THEN <<ToString(row.last_visit_time)>> ELSE <<"Unknown">>

OrEmpty(opt) == IF IsNone(opt) THEN <<>> ELSE opt.val

ConvertRows(rows) ==
  [k \in DOMAIN rows |-> <<rows[k].url, OrEmpty(rows[k].title), TimeStr(rows[k])>>]

(***************************************************************************)
(* Tabs.  A snapshot file is Missing or [tag, entries, fails]: entries are *)
(* the records the decoder yields, in file order, before it raises (fails) *)
(* or ends.  A record is a NavigationEntry (nav) or another command.       *)
(***************************************************************************)
session_files_alphabetical ==
  <<"Current Session", "Current Tabs", "Last Session", "Last Tabs">>

session_files == <<"Current Session", "Last Session", "Current Tabs", "Last Tabs">>

StartsWith(s, prefix) == Len(s) >= 1 /\ s[1] = prefix

\* The body of `for entry in snss`.
CollectEntry(acc, entry) ==
  IF ~entry.nav THEN acc
  ELSE LET url == entry.url
           title == OrEmpty(entry.title)
       IN  IF Len(url) > 0 /\ url \notin acc.seen_urls /\ ~StartsWith(url, "chrome://")
           THEN [seen_urls |-> acc.seen_urls \cup {url},
                 tabs |-> Append(acc.tabs, <<url, title>>)]
           ELSE acc

RECURSIVE ScanEntries(_, _, _)
ScanEntries(acc, entries, k) ==
  IF k > Len(entries) THEN acc
  ELSE ScanEntries(CollectEntry(acc, entries[k]), entries, k + 1)

\* The loop over session_files: a missing file is skipped; an existing one is
\* decoded record by record inside try, and an exception ends that file only.
RECURSIVE ScanFiles(_, _, _)
ScanFiles(profile, acc, k) ==
  IF k > Len(session_files) THEN acc
  ELSE LET f == profile.sessions[session_files[k]]
       IN  IF ~Exists(f) THEN ScanFiles(profile, acc, k + 1)
           ELSE ScanFiles(profile, ScanEntries(acc, f.entries, 1), k + 1)

RECURSIVE ScanFilesAbort(_, _, _)
ScanFilesAbort(profile, acc, k) ==
  IF k > Len(session_files) THEN acc
  ELSE LET f == profile.sessions[session_files[k]]
       IN  IF ~Exists(f) THEN ScanFilesAbort(profile, acc, k + 1)
           ELSE IF f.fails THEN ScanEntries(acc, f.entries, 1)
           ELSE ScanFilesAbort(profile, ScanEntries(acc, f.entries, 1), k + 1)

ScanSessionFiles_abortOnError(profile) ==
  ScanFilesAbort(profile, [seen_urls |-> {}, tabs |-> <<>>], 1)

ScanSessionFiles(profile) ==
  ScanFiles(profile, [seen_urls |-> {}, tabs |-> <<>>], 1)

extract_tabs(profile) ==
  IF ~profile.reader_importable THEN None
  ELSE LET tabs == ScanSessionFiles(profile).tabs
       IN  IF Len(tabs) > 0 THEN Some(tabs) ELSE None

(***************************************************************************)
(* generate_dashboard.  The document is the list `parts`; a fragment is a  *)
(* record naming its element (kind) and the values interpolated into it.   *)
(***************************************************************************)
NavLinks(tabs, history) ==
  (IF ~IsNone(tabs) THEN <<[kind |-> "navlink", href |-> "#tabs"]>> ELSE <<>>)
  \o <<[kind |-> "navlink", href |-> "#bookmarks"]>>
  \o (IF ~IsNone(history) THEN <<[kind |-> "navlink", href |-> "#history"]>> ELSE <<>>)
  \o <<[kind |-> "navend"]>>

TabItem(tab) ==
  LET url == tab[1]
      title == tab[2]
  IN  [kind |-> "li", section |-> "tabs", href |-> esc(url),
       label |-> IF Len(title) > 0 THEN esc(title) ELSE esc(url),
       url_display |-> esc(url)]

TabsSection(tabs) ==
  IF ~IsNone(tabs)
  THEN <<[kind |-> "h2", id |-> "tabs", count |-> Some(Len(tabs.val))]>>
       \o (IF Len(tabs.val) > 0
           THEN <<[kind |-> "ul", class |-> "tab-list"]>>
                \o [k \in DOMAIN tabs.val |-> TabItem(tabs.val[k])]
                \o <<[kind |-> "ulend", class |-> "tab-list"]>>
           ELSE <<[kind |-> "empty-note", section |-> "tabs",
                   text |-> "No open tabs found."]>>)
  ELSE <<[kind |-> "h2", id |-> "tabs", count |-> None],
         [kind |-> "empty-note", section |-> "tabs",
          text |-> "Could not recover open tabs from session files."]>>

\* One walked record as a dashboard fragment.
BookmarkPart(item) ==
  LET indent == Min(item[1], MaxIndent)
  IN  IF item[2] = "folder"
      THEN [kind |-> "folder", indent |-> indent, name |-> esc(item[3])]
      ELSE [kind |-> "bookmark-item", indent |-> indent,
            href |-> esc(item[4].val), name |-> esc(item[3])]

RECURSIVE BookmarkParts(_, _)
BookmarkParts(roots, k) ==
  IF k > Len(roots) THEN <<>>
  ELSE (IF roots[k].key \in EXCLUDED_ROOTS THEN <<>>
        ELSE LET walked == walk_bookmarks(roots[k].value, 0)
             IN  [m \in DOMAIN walked |-> BookmarkPart(walked[m])])
       \o BookmarkParts(roots, k + 1)

BookmarksSection(bookmarks_roots) ==
  <<[kind |-> "h2", id |-> "bookmarks", count |-> None]>>
  \o (IF Truthy(bookmarks_roots)
      THEN LET bookmark_parts == BookmarkParts(bookmarks_roots.val, 1)
               bookmark_count ==
                 Cardinality({m \in DOMAIN bookmark_parts :
                                bookmark_parts[m].kind = "bookmark-item"})
           IN  <<[kind |-> "section-count", count |-> bookmark_count]>>
               \o bookmark_parts
      ELSE <<[kind |-> "empty-note", section |-> "bookmarks",
              text |-> "No bookmarks found."]>>)

HistoryItem(entry) ==
  LET url == entry[1]
      title == entry[2]
      time_str == entry[3]
  IN  [kind |-> "li", section |-> "history", href |-> esc(url),
       label |-> IF Len(title) > 0 THEN esc(title) ELSE esc(url),
       timestamp |-> esc(time_str), url_display |-> esc(url)]

HistorySection(history) ==
  IF ~IsNone(history)
  THEN <<[kind |-> "h2", id |-> "history", count |-> Some(Len(history.val))]>>
       \o (IF Len(history.val) > 0
           THEN <<[kind |-> "ul", class |-> "history-list"]>>
                \o [k \in DOMAIN history.val |-> HistoryItem(history.val[k])]
                \o <<[kind |-> "ulend", class |-> "history-list"]>>
           ELSE <<[kind |-> "empty-note", section |-> "history",
                   text |-> "No history entries found."]>>)
  ELSE <<[kind |-> "h2", id |-> "history", count |-> None],
         [kind |-> "empty-note", section |-> "history",
          text |-> "Could not recover browsing history."]>>

generate_dashboard(tabs, bookmarks_roots, history) ==
  <<[kind |-> "head"]>>
  \o NavLinks(tabs, history)
  \o TabsSection(tabs)
  \o BookmarksSection(bookmarks_roots)
  \o HistorySection(history)
  \o <<[kind |-> "end"]>>

(***************************************************************************)
(* generate_importable_bookmarks and _write_netscape_node.                 *)
(***************************************************************************)
RECURSIVE write_netscape_node(_, _)
RECURSIVE WriteChildren(_, _, _)
write_netscape_node(node, indent) ==
  IF Get(node, "type", "") = "folder"
  THEN <<[kind |-> "H3", indent |-> indent,
          name |-> esc(Get(node, "name", <<"Untitled">>))],
         [kind |-> "DL", indent |-> indent]>>
       \o WriteChildren(Get(node, "children", <<>>), indent + 1, 1)
       \o <<[kind |-> "/DL", indent |-> indent]>>
  ELSE IF Get(node, "type", "") = "url"
  THEN <<[kind |-> "A", indent |-> indent,
          href |-> esc(Get(node, "url", <<>>)),
          name |-> esc(Get(node, "name", <<"Untitled">>))]>>
  ELSE <<>>

WriteChildren(children, indent, k) ==
  IF k > Len(children) THEN <<>>
  ELSE write_netscape_node(children[k], indent)
       \o WriteChildren(children, indent, k + 1)

RECURSIVE WriteRoots(_, _)
WriteRoots(roots, k) ==
  IF k > Len(roots) THEN <<>>
  ELSE (IF roots[k].key \in EXCLUDED_ROOTS THEN <<>>
        ELSE write_netscape_node(roots[k].value, 1))
       \o WriteRoots(roots, k + 1)

generate_importable_bookmarks(bookmarks_roots) ==
  <<[kind |-> "header"], [kind |-> "DL", indent |-> 0]>>
  \o (IF Truthy(bookmarks_roots) THEN WriteRoots(bookmarks_roots.val, 1) ELSE <<>>)
  \o <<[kind |-> "/DL", indent |-> 0]>>

(***************************************************************************)
(* State.  Per-instance variables are functions over Procs: an instance is *)
(* one run of main.                                                        *)
(***************************************************************************)
VARIABLES
  profile,          \* [Procs -> the selected profile directory's files]
  tmp_dir,          \* the files at the temporary paths
  desktop,          \* the two output documents
  pc,               \* each instance's position in main
  validation,       \* (ok, missing) of validate_profile
  bookmarks_roots,  \* main's locals
  history,
  tabs,
  rows,             \* extract_history's locals
  conn,
  raising,          \* an exception is propagating through `finally`
  alerts,           \* the dialogs shown
  exit_code,
  invoked,          \* history: the extractors each instance has called
  wrote,            \* history: the documents each instance has written
  hist_exit,        \* history: how extract_history was left
  found_removed,    \* history: connect found no file at tmp_path
  queried_from,     \* history: whose copy the query read (0: none)
  last_op           \* history: the last operation on a temporary path

vars == <<profile, tmp_dir, desktop, pc, validation, bookmarks_roots, history,
          tabs, rows, conn, raising, alerts, exit_code, invoked, wrote,
          hist_exit, found_removed, queried_from, last_op>>

tmp_path_perInstance(i) ==
  IF i = 1 THEN "/tmp/chrome_recovery_history_copy"
  ELSE "/tmp/chrome_recovery_history_copy.2"

tmp_path(i) == "/tmp/chrome_recovery_history_copy"

TmpPaths == {tmp_path(i) : i \in Procs}

Closed == [state |-> "closed"]

(***************************************************************************)
(* main, one action per statement that touches shared state or can raise.  *)
(***************************************************************************)
\* folder = pick_folder(); if not folder: sys.exit(0)
PickFolder(i) ==
  /\ pc[i] = "pick_folder"
  /\ \/ /\ pc' = [pc EXCEPT ![i] = "exited"]
        /\ exit_code' = [exit_code EXCEPT ![i] = Some(0)]
     \/ /\ pc' = [pc EXCEPT ![i] = "validate"]
        /\ UNCHANGED exit_code
  /\ UNCHANGED <<profile, tmp_dir, desktop, validation, bookmarks_roots, history,
                 tabs, rows, conn, raising, alerts, invoked, wrote, hist_exit,
                 found_removed, queried_from, last_op>>

\* ok, missing = validate_profile(profile_path); if not ok: show_alert; sys.exit(1)
Validate(i) ==
  /\ pc[i] = "validate"
  /\ LET r == validate_profile(profile[i])
     IN  /\ validation' = [validation EXCEPT ![i] = Some(r)]
         /\ IF r.ok
            THEN /\ pc' = [pc EXCEPT ![i] = "extract_bookmarks"]
                 /\ UNCHANGED <<alerts, exit_code>>
            ELSE /\ alerts' = [alerts EXCEPT ![i] =
                       Append(@, [title |-> "Not a Chrome Profile",
                                  expected |-> r.missing])]
                 /\ exit_code' = [exit_code EXCEPT ![i] = Some(1)]
                 /\ pc' = [pc EXCEPT ![i] = "exited"]
  /\ UNCHANGED <<profile, tmp_dir, desktop, bookmarks_roots, history, tabs, rows,
                 conn, raising, invoked, wrote, hist_exit, found_removed,
                 queried_from, last_op>>

\* bookmarks_roots = extract_bookmarks(profile_path); main has no handler.
ExtractBookmarks(i) ==
  /\ pc[i] = "extract_bookmarks"
  /\ invoked' = [invoked EXCEPT ![i] = @ \cup {"bookmarks"}]
  /\ LET r == extract_bookmarks(profile[i])
     IN  IF r.raised
         THEN /\ pc' = [pc EXCEPT ![i] = "crashed"]
              /\ exit_code' = [exit_code EXCEPT ![i] = Some(1)]
              /\ UNCHANGED bookmarks_roots
         ELSE /\ pc' = [pc EXCEPT ![i] = "extract_history"]
              /\ bookmarks_roots' = [bookmarks_roots EXCEPT ![i] = r.value]
              /\ UNCHANGED exit_code
  /\ UNCHANGED <<profile, tmp_dir, desktop, validation, history, tabs, rows, conn,
                 raising, alerts, wrote, hist_exit, found_removed, queried_from,
                 last_op>>

(***************************************************************************)
(* extract_history, statement by statement.                                *)
(***************************************************************************)
\* if not history_file.exists(): return None
HistExists(i) ==
  /\ pc[i] = "extract_history"
  /\ invoked' = [invoked EXCEPT ![i] = @ \cup {"history"}]
  /\ IF ~Exists(profile[i].history)
     THEN /\ history' = [history EXCEPT ![i] = None]
          /\ hist_exit' = [hist_exit EXCEPT ![i] = "absent"]
          /\ pc' = [pc EXCEPT ![i] = "extract_tabs"]
     ELSE /\ pc' = [pc EXCEPT ![i] = "hist_copy"]
          /\ UNCHANGED <<history, hist_exit>>
  /\ UNCHANGED <<profile, tmp_dir, desktop, validation, bookmarks_roots, tabs,
                 rows, conn, raising, alerts, exit_code, wrote, found_removed,
                 queried_from, last_op>>

\* shutil.copy2(history_file, tmp_path), outside the try.  It may raise before
\* the destination is opened, or after it was created and partly written; an
\* existing destination is rewritten in place.
HistCopy(i) ==
  /\ pc[i] = "hist_copy"
  /\ \/ /\ tmp_dir' = [tmp_dir EXCEPT ![tmp_path(i)] =
                          [tag |-> "File", data |-> profile[i].history, writer |-> i]]
        /\ last_op' = [kind |-> "copy", by |-> i]
        /\ pc' = [pc EXCEPT ![i] = "hist_connect"]
        /\ UNCHANGED <<hist_exit, exit_code>>
     \/ /\ pc' = [pc EXCEPT ![i] = "crashed"]
        /\ hist_exit' = [hist_exit EXCEPT ![i] = "raised"]
        /\ exit_code' = [exit_code EXCEPT ![i] = Some(1)]
        /\ UNCHANGED <<tmp_dir, last_op>>
     \/ /\ tmp_dir' = [tmp_dir EXCEPT ![tmp_path(i)] =
                          [tag |-> "File", data |-> [tag |-> "Partial"], writer |-> i]]
        /\ last_op' = [kind |-> "copy", by |-> i]
        /\ pc' = [pc EXCEPT ![i] = "crashed"]
        /\ hist_exit' = [hist_exit EXCEPT ![i] = "raised"]
        /\ exit_code' = [exit_code EXCEPT ![i] = Some(1)]
  /\ UNCHANGED <<profile, desktop, validation, bookmarks_roots, history, tabs,
                 rows, conn, raising, alerts, invoked, wrote, found_removed,
                 queried_from>>

\* conn = sqlite3.connect(str(tmp_path)), inside the try: it opens the file at
\* the path, creating an empty database when there is none, or raises.
HistConnect(i) ==
  /\ pc[i] = "hist_connect"
  /\ \/ /\ conn' = [conn EXCEPT ![i] = [state |-> "live", path |-> tmp_path(i)]]
        /\ IF Exists(tmp_dir[tmp_path(i)])
           THEN UNCHANGED <<tmp_dir, found_removed, last_op>>
           ELSE /\ tmp_dir' = [tmp_dir EXCEPT ![tmp_path(i)] =
                       [tag |-> "File", data |-> [tag |-> "EmptyDb"], writer |-> i]]
                /\ found_removed' = [found_removed EXCEPT ![i] = TRUE]
                /\ last_op' = [kind |-> "create", by |-> i]
        /\ pc' = [pc EXCEPT ![i] = "hist_query"]
        /\ UNCHANGED raising
     \/ /\ raising' = [raising EXCEPT ![i] = TRUE]
        /\ pc' = [pc EXCEPT ![i] = "hist_finally"]
        /\ UNCHANGED <<conn, tmp_dir, found_removed, last_op>>
  /\ UNCHANGED <<profile, desktop, validation, bookmarks_roots, history, tabs,
                 rows, alerts, exit_code, invoked, wrote, hist_exit, queried_from>>

\* What the connection reads: the file at its path, or the unlinked file it
\* still holds open.
ConnFile(i) ==
  IF conn[i].state = "live" THEN tmp_dir[conn[i].path] ELSE conn[i].file

\* cursor.execute(SELECT ...); rows = cursor.fetchall(); conn.close()
HistQuery(i) ==
  /\ pc[i] = "hist_query"
  /\ LET f == ConnFile(i)
     IN  IF Queryable(f.data)
         THEN /\ rows' = [rows EXCEPT ![i] = SelectUrls(f.data.rows, HistoryLimit)]
              /\ queried_from' = [queried_from EXCEPT ![i] = f.writer]
              /\ conn' = [conn EXCEPT ![i] = Closed]
              /\ UNCHANGED raising
         ELSE /\ raising' = [raising EXCEPT ![i] = TRUE]
              /\ UNCHANGED <<rows, queried_from, conn>>
  /\ pc' = [pc EXCEPT ![i] = "hist_finally"]
  /\ UNCHANGED <<profile, tmp_dir, desktop, validation, bookmarks_roots, history,
                 tabs, alerts, exit_code, invoked, wrote, hist_exit,
                 found_removed, last_op>>

\* finally: tmp_path.unlink(missing_ok=True); then the exception, if any,
\* leaves extract_history and main.
HistFinally(i) ==
  /\ pc[i] = "hist_finally"
  /\ tmp_dir' = [tmp_dir EXCEPT ![tmp_path(i)] = Missing]
  /\ last_op' = [kind |-> "unlink", by |-> i]
  /\ conn' = [j \in Procs |->
                IF conn[j].state = "live" /\ conn[j].path = tmp_path(i)
                THEN [state |-> "orphan", file |-> tmp_dir[tmp_path(i)]]
                ELSE conn[j]]
  /\ IF raising[i]
     THEN /\ pc' = [pc EXCEPT ![i] = "crashed"]
          /\ hist_exit' = [hist_exit EXCEPT ![i] = "raised"]
          /\ exit_code' = [exit_code EXCEPT ![i] = Some(1)]
     ELSE /\ pc' = [pc EXCEPT ![i] = "hist_convert"]
          /\ UNCHANGED <<hist_exit, exit_code>>
  /\ UNCHANGED <<profile, desktop, validation, bookmarks_roots, history, tabs,
                 rows, raising, alerts, invoked, wrote, found_removed,
                 queried_from>>

\* the conversion loop and `return results`
HistConvert(i) ==
  /\ pc[i] = "hist_convert"
  /\ history' = [history EXCEPT ![i] = Some(ConvertRows(rows[i]))]
  /\ hist_exit' = [hist_exit EXCEPT ![i] = "returned"]
  /\ pc' = [pc EXCEPT ![i] = "extract_tabs"]
  /\ UNCHANGED <<profile, tmp_dir, desktop, validation, bookmarks_roots, tabs,
                 rows, conn, raising, alerts, exit_code, invoked, wrote,
                 found_removed, queried_from, last_op>>

(***************************************************************************)
(* main after the history extraction.                                      *)
(***************************************************************************)
\* tabs = extract_tabs(profile_path)
ExtractTabs(i) ==
  /\ pc[i] = "extract_tabs"
  /\ invoked' = [invoked EXCEPT ![i] = @ \cup {"tabs"}]
  /\ tabs' = [tabs EXCEPT ![i] = extract_tabs(profile[i])]
  /\ pc' = [pc EXCEPT ![i] = "generate_dashboard"]
  /\ UNCHANGED <<profile, tmp_dir, desktop, validation, bookmarks_roots, history,
                 rows, conn, raising, alerts, exit_code, wrote, hist_exit,
                 found_removed, queried_from, last_op>>

\* generate_dashboard(tabs, bookmarks_roots, history, dashboard_path)
GenerateDashboard(i) ==
  /\ pc[i] = "generate_dashboard"
  /\ desktop' = [desktop EXCEPT !.dashboard =
                   [tag |-> "Html", by |-> i,
                    parts |-> generate_dashboard(tabs[i], bookmarks_roots[i],
                                                 history[i])]]
  /\ wrote' = [wrote EXCEPT ![i] = @ \cup {"dashboard"}]
  /\ pc' = [pc EXCEPT ![i] = "export_bookmarks"]
  /\ UNCHANGED <<profile, tmp_dir, validation, bookmarks_roots, history, tabs,
                 rows, conn, raising, alerts, exit_code, invoked, hist_exit,
                 found_removed, queried_from, last_op>>

\* if bookmarks_roots: generate_importable_bookmarks(bookmarks_roots, bookmarks_path)
ExportBookmarks(i) ==
  /\ pc[i] = "export_bookmarks"
  /\ IF Truthy(bookmarks_roots[i])
     THEN /\ desktop' = [desktop EXCEPT !.bookmarks =
                           [tag |-> "Html", by |-> i,
                            parts |-> generate_importable_bookmarks(bookmarks_roots[i])]]
          /\ wrote' = [wrote EXCEPT ![i] = @ \cup {"bookmarks"}]
     ELSE UNCHANGED <<desktop, wrote>>
  /\ pc' = [pc EXCEPT ![i] = "summary"]
  /\ UNCHANGED <<profile, tmp_dir, validation, bookmarks_roots, history, tabs,
                 rows, conn, raising, alerts, exit_code, invoked, hist_exit,
                 found_removed, queried_from, last_op>>

\* the summary message, show_alert("Recovery Complete", ...), reveal_in_finder
Summary(i) ==
  /\ pc[i] = "summary"
  /\ LET recovered ==
           (IF Truthy(tabs[i]) THEN <<<<"open tabs", Len(tabs[i].val)>>>> ELSE <<>>)
           \o (IF Truthy(bookmarks_roots[i]) THEN <<<<"bookmarks", 0>>>> ELSE <<>>)
           \o (IF Truthy(history[i])
               THEN <<<<"history entries", Len(history[i].val)>>>> ELSE <<>>)
         files_note == IF ~Truthy(bookmarks_roots[i])
                       THEN "Dashboard saved to your Desktop."
                       ELSE "Files saved to your Desktop."
     IN  alerts' = [alerts EXCEPT ![i] =
                      Append(@, [title |-> "Recovery Complete",
                                 recovered |-> recovered,
                                 files_note |-> files_note])]
  /\ exit_code' = [exit_code EXCEPT ![i] = Some(0)]
  /\ pc' = [pc EXCEPT ![i] = "done"]
  /\ UNCHANGED <<profile, tmp_dir, desktop, validation, bookmarks_roots, history,
                 tabs, rows, conn, raising, invoked, wrote, hist_exit,
                 found_removed, queried_from, last_op>>

(***************************************************************************)
(* Inputs of the checked instances.                                        *)
(***************************************************************************)
UrlA == <<"https://", "a">>
UrlB == <<"https://", "b?x=1", "&", "y=2">>
UrlChrome == <<"chrome://", "newtab">>
TitleOne == <<"One">>
TitleTwo == <<"<", "Two", ">">>

SeqsUpTo(S, n) == UNION {[1..m -> S] : m \in 0..n}

\* Snapshot records: another command, an empty URL, an internal page, the same
\* URL under two titles, and a URL without a title.
SnapshotEntries ==
  { [nav |-> FALSE],
    [nav |-> TRUE, url |-> <<>>, title |-> Some(TitleOne)],
    [nav |-> TRUE, url |-> UrlChrome, title |-> Some(TitleOne)],
    [nav |-> TRUE, url |-> UrlA, title |-> Some(TitleOne)],
    [nav |-> TRUE, url |-> UrlA, title |-> Some(TitleTwo)],
    [nav |-> TRUE, url |-> UrlB, title |-> None] }

Snss(entries, fails) == [tag |-> "Snss", entries |-> entries, fails |-> fails]

\* The candidate files that yield exactly n records; a file that yields none
\* may also be missing.
SnapshotFilesOfSize(n) ==
  (IF n = 0 THEN {Missing} ELSE {})
  \cup {Snss(e, b) : e \in [1..n -> SnapshotEntries], b \in BOOLEAN}

\* How many records each of the four candidates yields: at most `budget` in all.
SizeVectors(budget) ==
  {v \in [1..4 -> 0..budget] : v[1] + v[2] + v[3] + v[4] <= budget}

SessionsOf(files) ==
  [name \in SeqToSet(session_files) |->
     files[CHOOSE k \in DOMAIN session_files : session_files[k] = name]]

NoSessions == SessionsOf(<<Missing, Missing, Missing, Missing>>)

FewSessions ==
  { NoSessions,
    SessionsOf(<<Snss(<<>>, FALSE), Missing, Missing, Missing>>),
    SessionsOf(<<Snss(<<>>, TRUE), Missing, Snss(<<>>, TRUE), Missing>>),
    SessionsOf(<<Snss(<<[nav |-> TRUE, url |-> UrlA, title |-> Some(TitleOne)]>>, TRUE),
                 Missing,
                 Snss(<<[nav |-> TRUE, url |-> UrlB, title |-> None]>>, FALSE),
                 Missing>>) }

\* Bookmark nodes: links with and without name and url, a node of another
\* type that has children, a node without a type.
LinkFull == [type |-> "url", name |-> <<"Ex", "&", "Co">>, url |-> UrlA]
LinkNoName == [type |-> "url", url |-> UrlB]
LinkNoUrl == [type |-> "url", name |-> TitleTwo]
OtherType == [type |-> "separator", name |-> TitleOne, children |-> <<LinkFull>>]
Leaves == {LinkFull, LinkNoName, LinkNoUrl, OtherType}

Folders ==
  {[type |-> "folder", name |-> <<"Bar">>, children |-> c] : c \in SeqsUpTo(Leaves, MaxChildren)}
  \cup {[type |-> "folder", children |-> c] : c \in SeqsUpTo(Leaves, MaxChildren)}
  \cup {[type |-> "folder", name |-> <<"Empty">>]}

RECURSIVE Chain(_, _)
Chain(n, leaf) ==
  IF n = 0 THEN leaf
  ELSE [type |-> "folder", name |-> <<"Level">>, children |-> <<Chain(n - 1, leaf), LinkNoName>>]

Chains == {Chain(n, LinkNoUrl) : n \in 2..MaxChain}

RichNodes == Leaves \cup Folders \cup Chains
PlainNodes == {LinkNoUrl, [type |-> "folder", name |-> <<"Other">>, children |-> <<LinkFull>>]}

RootNames == {"bookmark_bar", "other", "synced"}

\* Root mappings: distinct keys in any order, one value from RichNodes.
RootMappings ==
  UNION { { [k \in 1..n |-> [key |-> keys[k],
                             value |-> IF k = p THEN rich ELSE plain[k]]]
            : rich \in RichNodes, p \in 1..n, plain \in [1..n -> PlainNodes],
              keys \in {q \in [1..n -> RootNames] : \A a, b \in 1..n : a # b => q[a] # q[b]} }
          : n \in 1..MaxRoots }

SampleRoots ==
  <<[key |-> "bookmark_bar",
     value |-> [type |-> "folder", name |-> <<"Bar">>, children |-> <<LinkFull>>]],
    [key |-> "synced", value |-> [type |-> "folder", name |-> <<"Mobile">>]]>>

Json(data) == [tag |-> "Json", data |-> data]

BookmarkFiles ==
  { Missing, [tag |-> "InvalidJson"], Json([version |-> 1]), Json([roots |-> <<>>]),
    Json([roots |-> SampleRoots, version |-> 1]) }

Row(url, title, t, ok) == [url |-> url, title |-> title, last_visit_time |-> t, in_range |-> ok]

StoreA == [tag |-> "Sqlite",
           rows |-> <<Row(UrlA, Some(TitleOne), 1, TRUE), Row(UrlB, None, 2, FALSE)>>]
StoreB == [tag |-> "Sqlite", rows |-> <<Row(UrlB, Some(TitleTwo), 0, TRUE)>>]
StoreEmpty == [tag |-> "Sqlite", rows |-> <<>>]

HistoryFiles == {Missing, [tag |-> "Corrupt"], StoreEmpty, StoreA}

Profile(b, h, s, r) ==
  [bookmarks |-> b, history |-> h, sessions |-> s, reader_importable |-> r]

TabPairs == {<<UrlA, TitleOne>>, <<UrlB, <<>>>>, <<UrlB, TitleTwo>>}
HistoryTriples == {<<UrlA, TitleOne, <<"1">>>>, <<UrlB, <<>>, <<"Unknown">>>>}

Optional(S) == {None} \cup {Some(v) : v \in S}

(***************************************************************************)
(* Initial states and specifications.                                      *)
(***************************************************************************)
\* Nothing written, opened or shown yet.
Untouched ==
  /\ tmp_dir = [p \in TmpPaths |-> Missing]
  /\ desktop = [dashboard |-> Missing, bookmarks |-> Missing]
  /\ rows = [i \in Procs |-> <<>>]
  /\ conn = [i \in Procs |-> Closed]
  /\ raising = [i \in Procs |-> FALSE]
  /\ alerts = [i \in Procs |-> <<>>]
  /\ exit_code = [i \in Procs |-> None]
  /\ wrote = [i \in Procs |-> {}]
  /\ found_removed = [i \in Procs |-> FALSE]
  /\ queried_from = [i \in Procs |-> 0]

Only1(x, other) == [i \in Procs |-> IF i = 1 THEN x ELSE other]

Validated == Some([ok |-> TRUE, missing |-> <<>>])

\* One run of main, from the folder picker on.
Init ==
  /\ Untouched
  /\ \E b \in BookmarkFiles, h \in HistoryFiles, s \in FewSessions, r \in BOOLEAN :
        profile = [i \in Procs |-> Profile(b, h, s, r)]
  /\ pc = Only1("pick_folder", "not_started")
  /\ validation = [i \in Procs |-> None]
  /\ bookmarks_roots = [i \in Procs |-> None]
  /\ history = [i \in Procs |-> None]
  /\ tabs = [i \in Procs |-> None]
  /\ invoked = [i \in Procs |-> {}]
  /\ hist_exit = [i \in Procs |-> "none"]
  /\ last_op = [kind |-> "none", by |-> 0]

Next ==
  \/ PickFolder(1)
  \/ Validate(1)
  \/ ExtractBookmarks(1)
  \/ HistExists(1)
  \/ HistCopy(1)
  \/ HistConnect(1)
  \/ HistQuery(1)
  \/ HistFinally(1)
  \/ HistConvert(1)
  \/ ExtractTabs(1)
  \/ GenerateDashboard(1)
  \/ ExportBookmarks(1)
  \/ Summary(1)

Spec == Init /\ [][Next]_vars

\* extract_tabs over every assignment of records to the candidate files: main
\* at `tabs = extract_tabs(profile_path)`.
InitTabs ==
  /\ Untouched
  /\ \E v \in SizeVectors(MaxTotalEntries) :
       \E f1 \in SnapshotFilesOfSize(v[1]), f2 \in SnapshotFilesOfSize(v[2]),
          f3 \in SnapshotFilesOfSize(v[3]), f4 \in SnapshotFilesOfSize(v[4]) :
          profile = [i \in Procs |->
                       Profile(Json([roots |-> SampleRoots]), StoreEmpty,
                               SessionsOf(<<f1, f2, f3, f4>>), TRUE)]
  /\ pc = Only1("extract_tabs", "not_started")
  /\ validation = Only1(Validated, None)
  /\ bookmarks_roots = Only1(Some(SampleRoots), None)
  /\ history = Only1(Some(<<>>), None)
  /\ tabs = [i \in Procs |-> None]
  /\ invoked = Only1({"bookmarks", "history"}, {})
  /\ hist_exit = Only1("returned", "none")
  /\ last_op = [kind |-> "unlink", by |-> 1]

NextTabs == ExtractTabs(1)

SpecTabs == InitTabs /\ [][NextTabs]_vars

\* generate_dashboard over every combination of absent, empty and non-empty
\* arguments.
DashboardTabs == Optional(SeqsUpTo(TabPairs, MaxRows))
DashboardHistory == Optional(SeqsUpTo(HistoryTriples, MaxRows))
DashboardBookmarks ==
  Optional({<<>>, SampleRoots, <<[key |-> "other", value |-> LinkNoName]>>})

InitDash ==
  /\ Untouched
  /\ profile = [i \in Procs |-> Profile(Json([roots |-> SampleRoots]), StoreA, NoSessions, TRUE)]
  /\ pc = Only1("generate_dashboard", "not_started")
  /\ validation = Only1(Validated, None)
  /\ \E t \in DashboardTabs, b \in DashboardBookmarks, h \in DashboardHistory :
        /\ tabs = Only1(t, None)
        /\ bookmarks_roots = Only1(b, None)
        /\ history = Only1(h, None)
  /\ invoked = Only1({"bookmarks", "history", "tabs"}, {})
  /\ hist_exit = Only1("returned", "none")
  /\ last_op = [kind |-> "unlink", by |-> 1]

NextDash == GenerateDashboard(1)

SpecDash == InitDash /\ [][NextDash]_vars

\* Both renderers over the bookmark root mappings: main at generate_dashboard
\* with the roots extract_bookmarks returned.
InitBookmarks ==
  /\ Untouched
  /\ \E m \in RootMappings :
        /\ profile = [i \in Procs |-> Profile(Json([roots |-> m]), StoreEmpty, NoSessions, TRUE)]
        /\ bookmarks_roots = Only1(Some(m), None)
  /\ pc = Only1("generate_dashboard", "not_started")
  /\ validation = Only1(Validated, None)
  /\ history = Only1(Some(<<>>), None)
  /\ tabs = [i \in Procs |-> None]
  /\ invoked = Only1({"bookmarks", "history", "tabs"}, {})
  /\ hist_exit = Only1("returned", "none")
  /\ last_op = [kind |-> "unlink", by |-> 1]

NextBookmarks == GenerateDashboard(1) \/ ExportBookmarks(1)

SpecBookmarks == InitBookmarks /\ [][NextBookmarks]_vars

\* Two runs of main at the same time, both at
\* `history = extract_history(profile_path)`, on the same or different profiles.
RaceHistories == {Missing, [tag |-> "Corrupt"], StoreA, StoreB}

InitRace ==
  /\ Untouched
  /\ \E h \in [Procs -> RaceHistories] :
        profile = [i \in Procs |->
                     Profile(Json([roots |-> SampleRoots]), h[i], NoSessions, TRUE)]
  /\ pc = [i \in Procs |-> "extract_history"]
  /\ validation = [i \in Procs |-> None]
  /\ bookmarks_roots = [i \in Procs |-> Some(SampleRoots)]
  /\ history = [i \in Procs |-> None]
  /\ tabs = [i \in Procs |-> None]
  /\ invoked = [i \in Procs |-> {"bookmarks"}]
  /\ hist_exit = [i \in Procs |-> "none"]
  /\ last_op = [kind |-> "none", by |-> 0]

NextRace ==
  \E i \in Procs :
    \/ HistExists(i)
    \/ HistCopy(i)
    \/ HistConnect(i)
    \/ HistQuery(i)
    \/ HistFinally(i)
    \/ HistConvert(i)

SpecRace == InitRace /\ [][NextRace]_vars

(***************************************************************************)
(* Properties of main: validation gate, graceful degradation, temp copy.   *)
(***************************************************************************)
ValidationPassed(i) == validation[i].tag = "Some" /\ validation[i].val.ok
ValidationFailed(i) == validation[i].tag = "Some" /\ ~validation[i].val.ok

\* C1: once validate_profile has succeeded, every run of main reaches
\* generate_dashboard and writes the dashboard, whatever happens inside the
\* extractors: an invalid Bookmarks file or a failing History copy or query
\* never aborts the process before the dashboard is written.
C1_DashboardAlwaysWritten ==
  \A i \in Procs :
    ValidationPassed(i) =>
      /\ pc[i] # "crashed"
      /\ pc[i] = "done" => "dashboard" \in wrote[i]

\* C4: on every exit path of extract_history taken after the History file was
\* found to exist (return, failed copy, failed open, failed query) the
\* temporary copy no longer exists.
C4_TempCopyRemoved ==
  \A i \in Procs :
    hist_exit[i] \in {"returned", "raised"} => ~Exists(tmp_dir[tmp_path(i)])

MissingMarkers(i) ==
  {n \in {"Bookmarks", "History"} : ~Exists(ProfileFile(profile[i], n))}

\* C5: validate_profile returns ok = false exactly when a marker (Bookmarks,
\* History) is missing, with the missing list exactly the missing names; and
\* when validation fails no extractor is invoked and no document is written
\* before the process ends in rejection.
C5_ValidationGate ==
  \A i \in Procs :
    validation[i].tag = "Some" =>
      LET r == validation[i].val
      IN  /\ (~r.ok) <=> (MissingMarkers(i) # {})
          /\ SeqToSet(r.missing) = MissingMarkers(i)
          /\ Len(r.missing) = Cardinality(MissingMarkers(i))
          /\ ~r.ok =>
               /\ pc[i] = "exited"
               /\ exit_code[i] = Some(1)
               /\ invoked[i] = {}
               /\ wrote[i] = {}
               /\ ~Exists(desktop.dashboard)
               /\ ~Exists(desktop.bookmarks)
               /\ alerts[i] = <<[title |-> "Not a Chrome Profile",
                                 expected |-> r.missing]>>

\* A rejected run that names History, the only missing marker.
C5_Witness ==
  /\ pc[1] = "exited"
  /\ ValidationFailed(1)
  /\ validation[1].val.missing = <<"History">>
  /\ Exists(profile[1].bookmarks)

(***************************************************************************)
(* Properties of extract_tabs.                                             *)
(***************************************************************************)
CandidateOrder == <<"Current Session", "Last Session", "Current Tabs", "Last Tabs">>

Qualifies(entry) ==
  entry.nav /\ Len(entry.url) > 0 /\ ~StartsWith(entry.url, "chrome://")

IsNav(entry) == entry.nav

\* The navigation records met when the candidates are scanned in CandidateOrder.
RECURSIVE MetRecords(_, _)
MetRecords(sessions, k) ==
  IF k > Len(CandidateOrder) THEN <<>>
  ELSE (IF Exists(sessions[CandidateOrder[k]])
        THEN SelectSeq(sessions[CandidateOrder[k]].entries, IsNav) ELSE <<>>)
       \o MetRecords(sessions, k + 1)

TabsDone == pc[1] = "generate_dashboard"
Candidates == profile[1].sessions
ExistingCandidates == {n \in DOMAIN Candidates : Exists(Candidates[n])}
QualifyingIn(n) == {e \in SeqToSet(Candidates[n].entries) : Qualifies(e)}
TabUrls == IF IsNone(tabs[1]) THEN {} ELSE {tabs[1].val[k][1] : k \in DOMAIN tabs[1].val}

\* C2: when at least one candidate exists and decodes without error but no
\* qualifying record is collected from any candidate, extract_tabs returns a
\* present-but-empty sequence (not None), which the dashboard renders as the
\* 'none found' notice with a count of 0.
C2_PresentButEmpty ==
  ( /\ TabsDone
    /\ \E n \in ExistingCandidates : ~Candidates[n].fails
    /\ \A n \in ExistingCandidates : QualifyingIn(n) = {} )
  => /\ tabs[1] = Some(<<>>)
     /\ TabsSection(tabs[1]) =
          <<[kind |-> "h2", id |-> "tabs", count |-> Some(0)],
            [kind |-> "empty-note", section |-> "tabs", text |-> "No open tabs found."]>>

FirstMet(S, url) == CHOOSE k \in DOMAIN S : S[k].url = url /\ \A m \in 1..(k - 1) : S[m].url # url

\* C3: the returned tab list holds each URL at most once, no empty and no
\* chrome:// URL, each kept (url, title) is the first occurrence met when the
\* candidates are scanned in the order Current Session, Last Session, Current
\* Tabs, Last Tabs and each file in file order, and the kept entries are in
\* that first-occurrence order.
C3_FirstOccurrenceWins ==
  (TabsDone /\ ~IsNone(tabs[1])) =>
    LET R == tabs[1].val
        S == MetRecords(Candidates, 1)
    IN  /\ \A a, b \in DOMAIN R : a # b => R[a][1] # R[b][1]
        /\ \A a \in DOMAIN R : Len(R[a][1]) > 0 /\ ~StartsWith(R[a][1], "chrome://")
        /\ \A a \in DOMAIN R :
             /\ \E k \in DOMAIN S : S[k].url = R[a][1]
             /\ R[a][2] = OrEmpty(S[FirstMet(S, R[a][1])].title)
        /\ \A a, b \in DOMAIN R :
             a < b => FirstMet(S, R[a][1]) < FirstMet(S, R[b][1])

\* The same URL under another title in a lower-priority candidate: the title
\* of Last Session is kept over that of Current Tabs.
C3_Witness ==
  /\ TabsDone
  /\ Candidates["Last Session"] =
       Snss(<<[nav |-> TRUE, url |-> UrlA, title |-> Some(TitleTwo)]>>, FALSE)
  /\ Candidates["Current Tabs"] =
       Snss(<<[nav |-> TRUE, url |-> UrlA, title |-> Some(TitleOne)]>>, FALSE)
  /\ tabs[1] = Some(<<<<UrlA, TitleTwo>>>>)

DashboardWritten == Exists(desktop.dashboard)
Doc == desktop.dashboard.parts

\* The hrefs of the links inside <nav> ... </nav>.
NavHrefs(doc) ==
  {doc[k].href : k \in {k \in DOMAIN doc :
                          /\ doc[k].kind = "navlink"
                          /\ \E e \in DOMAIN doc : e > k /\ doc[e].kind = "navend"}}

\* C6: for each feature (tabs, bookmarks, history) and every combination of
\* absent, empty and non-empty inputs, the navigation bar holds an anchor link
\* to the feature's section if and only if the feature is present.
C6_NavOnlyPresent ==
  DashboardWritten =>
    /\ ("#tabs" \in NavHrefs(Doc)) <=> ~IsNone(tabs[1])
    /\ ("#bookmarks" \in NavHrefs(Doc)) <=> ~IsNone(bookmarks_roots[1])
    /\ ("#history" \in NavHrefs(Doc)) <=> ~IsNone(history[1])

\* The fragments of the section headed <h2 id=...>, heading included.
SectionParts(doc, id) ==
  {doc[k] : k \in {k \in DOMAIN doc :
                     \E j \in 1..k :
                        /\ doc[j].kind = "h2"
                        /\ doc[j].id = id
                        /\ \A m \in (j + 1)..k : doc[m].kind \notin {"h2", "end"}}}

NoneFoundTexts ==
  {"No open tabs found.", "No bookmarks found.", "No history entries found."}

Notes(parts) == {p.text : p \in {q \in parts : q.kind = "empty-note"}}

\* The tri-state rule for one section: absent -> a 'could not be recovered'
\* notice, present but empty -> a 'none found' notice, present and non-empty
\* -> the entries with a visible count and no notice.
TriState(value, parts, entryKinds) ==
  /\ IsNone(value) =>
       /\ Notes(parts) # {}
       /\ Notes(parts) \cap NoneFoundTexts = {}
  /\ (~IsNone(value) /\ Len(value.val) = 0) =>
       /\ Notes(parts) # {}
       /\ Notes(parts) \subseteq NoneFoundTexts
  /\ Truthy(value) =>
       /\ Notes(parts) = {}
       /\ \/ \E p \in parts : p.kind = "h2" /\ p.count.tag = "Some"
          \/ \E p \in parts : p.kind = "section-count"
       /\ \/ \E p \in parts : p.kind \in entryKinds
          \/ \E p \in parts : p.kind = "section-count" /\ p.count = 0

\* C7: each of the three sections renders absence and emptiness differently:
\* absent -> 'could not be recovered', present but empty -> 'none found',
\* non-empty -> the entry list with a visible count; an absent and an empty
\* bookmark mapping never give the same bookmarks section.
C7_TriStateSections ==
  DashboardWritten =>
    /\ TriState(tabs[1], SectionParts(Doc, "tabs"), {"li"})
    /\ TriState(bookmarks_roots[1], SectionParts(Doc, "bookmarks"),
                {"folder", "bookmark-item"})
    /\ TriState(history[1], SectionParts(Doc, "history"), {"li"})

(***************************************************************************)
(* Properties of the two bookmark renderings.                              *)
(***************************************************************************)
IsDashItem(p) == p.kind \in {"folder", "bookmark-item"}
IsExportItem(p) == p.kind \in {"H3", "A"}

BothWritten == Exists(desktop.dashboard) /\ Exists(desktop.bookmarks)

\* The nodes a traversal reaches: folders and links not below a node of
\* another type.
RECURSIVE Recognised(_)
RECURSIVE RecognisedIn(_, _)
Recognised(node) ==
  IF Get(node, "type", "") = "folder"
  THEN 1 + RecognisedIn(Get(node, "children", <<>>), 1)
  ELSE IF Get(node, "type", "") = "url" THEN 1 ELSE 0

RecognisedIn(children, k) ==
  IF k > Len(children) THEN 0
  ELSE Recognised(children[k]) + RecognisedIn(children, k + 1)

RECURSIVE RecognisedRoots(_, _)
RecognisedRoots(roots, k) ==
  IF k > Len(roots) THEN 0
  ELSE (IF roots[k].key \in {"synced", "sync_transaction_version"} THEN 0
        ELSE Recognised(roots[k].value))
       + RecognisedRoots(roots, k + 1)

\* C8: the folder and link items generate_importable_bookmarks emits are the
\* same sequence (kind, name, url, nesting depth) as the items
\* generate_dashboard emits from walk_bookmarks: same roots excluded, nodes of
\* unrecognized type skipped with their subtree, a missing name rendered as
\* Untitled and a missing url as the empty string; the dashboard differs only
\* in capping the indent at 5.
C8_SameTraversal ==
  BothWritten =>
    LET D == SelectSeq(desktop.dashboard.parts, IsDashItem)
        N == SelectSeq(desktop.bookmarks.parts, IsExportItem)
    IN  /\ Len(D) = Len(N)
        /\ Len(N) = RecognisedRoots(bookmarks_roots[1].val, 1)
        /\ \A k \in DOMAIN D :
             /\ (D[k].kind = "folder") <=> (N[k].kind = "H3")
             /\ D[k].name = N[k].name
             /\ D[k].kind = "bookmark-item" => D[k].href = N[k].href
             /\ D[k].indent = Min(N[k].indent - 1, 5)

\* A link seven levels deep in the export is capped at indent 5 in the
\* dashboard, and a link without a name is Untitled in both.
C8_Witness ==
  /\ BothWritten
  /\ LET D == SelectSeq(desktop.dashboard.parts, IsDashItem)
         N == SelectSeq(desktop.bookmarks.parts, IsExportItem)
     IN  /\ \E k \in DOMAIN N :
               N[k].kind = "A" /\ N[k].indent = 7 /\ D[k].indent = 5
         /\ \E k \in DOMAIN N :
               /\ N[k].kind = "A" /\ N[k].name = <<"Untitled">>
               /\ N[k].href = esc(UrlB) /\ D[k].name = <<"Untitled">>
         /\ \E k \in DOMAIN N : N[k].kind = "A" /\ N[k].href = <<>>
         /\ \E k \in DOMAIN bookmarks_roots[1].val :
               bookmarks_roots[1].val[k].key = "synced"

(***************************************************************************)
(* Properties of concurrent runs.                                          *)
(***************************************************************************)
\* C10: concurrent instances of extract_history use the same fixed temporary
\* path: what an instance that has made its copy finds there is what the last
\* operation of any instance left (the last writer's data, or nothing after
\* an unlink), so an instance can query the other's copy or find its own
\* copy removed.
C10_SharedTempPath ==
  \A i \in Procs :
    pc[i] = "hist_connect" =>
      LET f == tmp_dir[tmp_path(i)]
      IN  /\ last_op.kind = "unlink" => ~Exists(f)
          /\ last_op.kind \in {"copy", "create"} => Exists(f) /\ f.writer = last_op.by

\* Instance 1 queried the copy instance 2 wrote from a different History
\* file, and instance 2 then found no file where its copy had been.
C10_Witness ==
  /\ queried_from[1] = 2
  /\ profile[1].history # profile[2].history
  /\ rows[1] = SelectUrls(profile[2].history.rows, HistoryLimit)
  /\ found_removed[2]

====
